---- MODULE Spec2Model ----
(***************************************************************************)
(* Availability and booking-payment reconciliation of the hotel backend:   *)
(* routes/bookings.js, routes/payments.js, routes/rooms.js and             *)
(* routes/availability.js over the Firestore collections rooms, bookings   *)
(* and payments.                                                           *)
(*                                                                         *)
(* Every HTTP request is an independent task; each `await` on the store or *)
(* on the gateway is a point where other requests run.  A handler whose    *)
(* awaits matter is split into one action per step, with its position kept *)
(* in a request slot of `reqs`.                                            *)
(***************************************************************************)
EXTENDS Integers, FiniteSets, Sequences, TLC

\* ------------------------------------------------------------------ bounds
NumRooms == 2
MaxBookings == 2
MaxPayments == 2
MaxTime == 2
MaxRand == 1
NumSlots == 2

RoomIds == 1..NumRooms
BookingIds == 1..MaxBookings
PayIds == 1..MaxPayments
Times == 0..MaxTime
Slots == 1..NumSlots

\* An absent (undefined / null) string field of a request or a document.
None == "none"
\* An absent id, an absent date, and new Date(x) of an unparsable string.
NoId == -1
NoTime == -1
NaD == -2
\* No reference (customer_reference missing from a webhook body).
NoRef == <<>>
\* A booking id and a room id that name no document: ids the store never
\* allocated.
GhostBooking == 0
GhostRoom == 0

Users == {"u1", "u2"}
Roles == {"admin", "manager", "customer"}

VARIABLES
    rooms,      \* collection rooms: room id -> document
    bookings,   \* collection bookings: booking id -> document
    payments,   \* collection payments: payment id -> document
    now,        \* the clock read by new Date() / Date.now()
    reqs,       \* request slots: the handlers that are between two awaits
    res         \* the response most recently sent

vars == <<rooms, bookings, payments, now, reqs, res>>

Idle == [op |-> "idle"]

\* The lowest free request slot (slots are interchangeable).
FreeSlot(s) ==
    /\ reqs[s] = Idle
    /\ \A t \in Slots : t < s => reqs[t] # Idle

\* ----------------------------------------------------------------- helpers

\* bookings.js generateReference / payments.js generateReference:
\* 'TX-' + Date.now() + '-' + Math.floor(Math.random() * 1000).  The string is
\* determined by, and determines, the pair (milliseconds, random integer).
generateReference(ms, rnd) == <<"TX", ms, rnd>>

\* 1000 * 60 * 60 * 24 milliseconds: the instants of the model's clock in one
\* day.
DayLen == 2

\* Math.ceil(x / d) for an integer x and a positive d.
Ceil(x, d) == (x + d - 1) \div d

\* bookings.js calculateTotalPrice.  A price of 0 is falsy; the dates are Date
\* objects and never are.
calculateTotalPrice(pricePerNight, checkIn, checkOut) ==
    IF pricePerNight = 0 THEN 0
    ELSE LET diffTime == checkOut - checkIn
             diffNights == Ceil(diffTime, DayLen)
         IN  pricePerNight * (IF diffNights > 0 THEN diffNights ELSE 1)

\* The matching loop of checkAvailability over the documents of the snapshot,
\* in document-id order, with its early return.
RECURSIVE ScanSnapshot(_, _, _, _, _)
ScanSnapshot(books, docs, newStart, newEnd, excludeBookingId) ==
    IF docs = {} THEN TRUE
    ELSE LET d == CHOOSE x \in docs : \A y \in docs : x <= y
             rest == docs \ {d}
         IN  IF excludeBookingId # NoId /\ d = excludeBookingId
                THEN ScanSnapshot(books, rest, newStart, newEnd, excludeBookingId)
             ELSE IF newStart < books[d].checkOut /\ newEnd > books[d].checkIn
                THEN FALSE
             ELSE ScanSnapshot(books, rest, newStart, newEnd, excludeBookingId)

\* The query of checkAvailability: where roomId == r and status in
\* ['confirmed', 'pending'].
ActiveOfRoom(books, roomId) ==
    {d \in DOMAIN books :
        books[d].roomId = roomId /\ books[d].status \in {"confirmed", "pending"}}

ScanSnapshotTouching(books, docs, newStart, newEnd, excludeBookingId) ==
    \A d \in docs :
        \/ (excludeBookingId # NoId /\ d = excludeBookingId)
        \/ ~(newStart <= books[d].checkOut /\ newEnd >= books[d].checkIn)

checkAvailabilityTouching(books, roomId, checkIn, checkOut, excludeBookingId) ==
    ScanSnapshotTouching(books, ActiveOfRoom(books, roomId), checkIn, checkOut,
                         excludeBookingId)

checkAvailability(books, roomId, checkIn, checkOut, excludeBookingId) ==
    ScanSnapshot(books, ActiveOfRoom(books, roomId), checkIn, checkOut,
                 excludeBookingId)

\* ------------------------------------------------------------------- state

\* The rooms, stored by POST /rooms (rooms.js lines 180-192) with the nightly
\* prices given, and nothing else.
InitWith(prices) ==
    /\ rooms = [r \in RoomIds |->
                  [roomNumber |-> r, price |-> prices[r], status |-> "Available"]]
    /\ bookings = <<>>
    /\ payments = <<>>
    /\ now = 0
    /\ reqs = [s \in Slots |-> Idle]
    /\ res = [op |-> "none", code |-> 0, id |-> NoId, msg |-> None]

\* Every room at 100 a night.
Init == InitWith([r \in RoomIds |-> 100])

\* The rooms at 100, 200, ... a night.
InitPriced == InitWith([r \in RoomIds |-> 100 * r])

Respond(op, code, id, msg) ==
    res' = [op |-> op, code |-> code, id |-> id, msg |-> msg]

\* The clock advances.
Tick ==
    /\ now < MaxTime
    /\ now' = now + 1
    /\ UNCHANGED <<rooms, bookings, payments, reqs, res>>

\* --------------------------------------------- POST /bookings (bookings.js)

InFlight(op, pcs) == {s \in Slots : reqs[s].op = op /\ reqs[s].pc \in pcs}

\* Room left in the model's bounded store for the documents a new request adds.
RoomForBooking ==
    Cardinality(DOMAIN bookings) + Cardinality(InFlight("postBooking", {"checked"}))
        < MaxBookings

RoomForPayment ==
    Cardinality(DOMAIN payments)
        + Cardinality(InFlight("postBooking", {"checked", "booked"}))
        < MaxPayments

\* x || d
OrDefault(x, d) == IF x = None THEN d ELSE x

CreateValidateNoAttribution(s, body) ==
    /\ FreeSlot(s)
    /\ UNCHANGED <<rooms, bookings, payments, now>>
    /\ IF body.start = NaD \/ body.end = NaD
          THEN Respond("postBooking", 400, NoId, "Invalid dates") /\ UNCHANGED reqs
       ELSE IF body.start >= body.end
          THEN Respond("postBooking", 400, NoId, "Check-out must be after check-in")
               /\ UNCHANGED reqs
       ELSE IF body.roomId \notin DOMAIN rooms
          THEN Respond("postBooking", 404, NoId, "Room not found") /\ UNCHANGED reqs
       ELSE IF ~checkAvailability(bookings, body.roomId, body.start, body.end, NoId)
          THEN Respond("postBooking", 409, NoId, "Room is unavailable")
               /\ UNCHANGED reqs
       ELSE /\ RoomForBooking
            /\ RoomForPayment
            /\ reqs' = [reqs EXCEPT ![s] =
                          [op |-> "postBooking", pc |-> "checked", body |-> body,
                           price |-> rooms[body.roomId].price,
                           bookingId |-> NoId, ref |-> NoRef]]
            /\ UNCHANGED res

\* Lines 188-209: validation, the room lookup and the availability check.  A
\* request that passes waits (findOrCreateUser, then bookings.add) in slot s.
CreateValidate(s, body) ==
    /\ FreeSlot(s)
    /\ UNCHANGED <<rooms, bookings, payments, now>>
    /\ IF body.start = NaD \/ body.end = NaD
          THEN Respond("postBooking", 400, NoId, "Invalid dates") /\ UNCHANGED reqs
       ELSE IF body.start >= body.end
          THEN Respond("postBooking", 400, NoId, "Check-out must be after check-in")
               /\ UNCHANGED reqs
       ELSE IF body.paymentMethod = "Cash" /\ body.receivedBy = None
          THEN Respond("postBooking", 400, NoId, "Cash payment requires receivedBy")
               /\ UNCHANGED reqs
       ELSE IF body.roomId \notin DOMAIN rooms
          THEN Respond("postBooking", 404, NoId, "Room not found") /\ UNCHANGED reqs
       ELSE IF ~checkAvailability(bookings, body.roomId, body.start, body.end, NoId)
          THEN Respond("postBooking", 409, NoId, "Room is unavailable")
               /\ UNCHANGED reqs
       ELSE /\ RoomForBooking
            /\ RoomForPayment
            /\ reqs' = [reqs EXCEPT ![s] =
                          [op |-> "postBooking", pc |-> "checked", body |-> body,
                           price |-> rooms[body.roomId].price,
                           bookingId |-> NoId, ref |-> NoRef]]
            /\ UNCHANGED res

\* Lines 223-240: the booking document.
newBooking(body, totalPrice) ==
    [roomId        |-> body.roomId,
     userId        |-> body.userId,
     checkIn       |-> body.start,
     checkOut      |-> body.end,
     totalPrice    |-> totalPrice,
     status        |-> OrDefault(body.status, "pending"),
     paymentStatus |-> OrDefault(body.paymentStatus, "unpaid"),
     paymentMethod |-> OrDefault(body.paymentMethod, "Mobile Money")]

\* The locals of the handler that are still read after bookings.add (the
\* payment fields), and after payments.add (the gateway condition); the others
\* are dead and are dropped from the request slot.
LiveAfterInsert(body) ==
    [body EXCEPT !.roomId = NoId, !.start = NoTime, !.end = NoTime,
                 !.status = None, !.receivedBy = None, !.userId = None]

LiveAfterPayment(body) == [body EXCEPT !.paymentStatus = None]

\* The store allocates the id of an added booking; which id is immaterial, the
\* lowest unused one stands for it.
NewBookingId == Cardinality(DOMAIN bookings) + 1

CreateInsertRechecked(s, ok) ==
    /\ reqs[s].op = "postBooking" /\ reqs[s].pc = "checked"
    /\ UNCHANGED <<rooms, payments, now>>
    /\ IF ~ok
          THEN /\ reqs' = [reqs EXCEPT ![s] = Idle]
               /\ Respond("postBooking", 500, NoId, "error")
               /\ UNCHANGED bookings
       ELSE IF ~checkAvailability(bookings, reqs[s].body.roomId, reqs[s].body.start,
                                  reqs[s].body.end, NoId)
          THEN /\ reqs' = [reqs EXCEPT ![s] = Idle]
               /\ Respond("postBooking", 409, NoId, "Room is unavailable")
               /\ UNCHANGED bookings
       ELSE /\ bookings' = bookings @@
                 (NewBookingId :>
                     newBooking(reqs[s].body,
                                calculateTotalPrice(reqs[s].price, reqs[s].body.start,
                                                    reqs[s].body.end)))
            /\ reqs' = [reqs EXCEPT ![s].pc = "booked",
                                    ![s].body = LiveAfterInsert(@),
                                    ![s].price = 0,
                                    ![s].bookingId = NewBookingId]
            /\ UNCHANGED res

\* Lines 217-243: totalPrice from the room document read at line 205, and
\* bookings.add(newBooking).  A store failure is caught at line 307 and
\* answered 500.
CreateInsert(s, ok) ==
    /\ reqs[s].op = "postBooking" /\ reqs[s].pc = "checked"
    /\ UNCHANGED <<rooms, payments, now>>
    /\ IF ok
          THEN /\ bookings' = bookings @@
                    (NewBookingId :>
                        newBooking(reqs[s].body,
                                   calculateTotalPrice(reqs[s].price, reqs[s].body.start,
                                                       reqs[s].body.end)))
               /\ reqs' = [reqs EXCEPT ![s].pc = "booked",
                                       ![s].body = LiveAfterInsert(@),
                                       ![s].price = 0,
                                       ![s].bookingId = NewBookingId]
               /\ UNCHANGED res
          ELSE /\ reqs' = [reqs EXCEPT ![s] = Idle]
               /\ Respond("postBooking", 500, NoId, "error")
               /\ UNCHANGED bookings

\* Lines 248-262: the payment document created with the booking.
paymentData(bookingId, body, ref) ==
    [bookingId          |-> bookingId,
     status             |-> OrDefault(body.paymentStatus, "pending"),
     customer_reference |-> ref,
     externalReference  |-> None,
     failureReason      |-> None]

\* Lines 246-264: generateReference() and payments.add(paymentData).  The store
\* gives the document a random id: any unused one.
CreatePayment(s, ok, rnd, pid) ==
    /\ reqs[s].op = "postBooking" /\ reqs[s].pc = "booked"
    /\ pid \notin DOMAIN payments
    /\ UNCHANGED <<rooms, bookings, now>>
    /\ LET myReference == generateReference(now, rnd)
       IN  IF ok
              THEN /\ payments' = payments @@
                        (pid :> paymentData(reqs[s].bookingId, reqs[s].body, myReference))
                   /\ reqs' = [reqs EXCEPT ![s].pc = "recorded",
                                           ![s].body = LiveAfterPayment(@),
                                           ![s].ref = myReference]
                   /\ UNCHANGED res
              ELSE /\ reqs' = [reqs EXCEPT ![s] = Idle]
                   /\ Respond("postBooking", 500, NoId, "error")
                   /\ UNCHANGED payments

\* Lines 267-305: the gateway call (made only for 'Mobile Money' with a payment
\* phone) and the response.  A rejected or unreachable gateway is caught at
\* line 295 and changes the message only.
CreateGatewayRollback(s, accepted) ==
    /\ reqs[s].op = "postBooking" /\ reqs[s].pc = "recorded"
    /\ UNCHANGED <<rooms, payments, now>>
    /\ reqs' = [reqs EXCEPT ![s] = Idle]
    /\ LET b == reqs[s].body
           called == b.paymentMethod = "Mobile Money" /\ b.paymentPhone # None
       IN  IF called /\ ~accepted
              THEN /\ bookings' = [d \in DOMAIN bookings \ {reqs[s].bookingId}
                                      |-> bookings[d]]
                   /\ Respond("postBooking", 502, NoId, "payment failed")
              ELSE /\ UNCHANGED bookings
                   /\ Respond("postBooking", 201, reqs[s].bookingId,
                              IF called THEN "prompt sent" ELSE "created")

CreateGateway(s, accepted) ==
    /\ reqs[s].op = "postBooking" /\ reqs[s].pc = "recorded"
    /\ UNCHANGED <<rooms, bookings, payments, now>>
    /\ reqs' = [reqs EXCEPT ![s] = Idle]
    /\ LET b == reqs[s].body
           called == b.paymentMethod = "Mobile Money" /\ b.paymentPhone # None
       IN  /\ (~called => accepted)
           /\ Respond("postBooking", 201, reqs[s].bookingId,
                      IF ~called THEN "created"
                      ELSE IF accepted THEN "prompt sent"
                      ELSE "prompt failed")

\* ------------------------------------------ PUT /bookings/:id (bookings.js)

\* Lines 325-352: the fields of `updates` that the body supplies.
ApplyBookingUpdates(doc, body) ==
    [doc EXCEPT
        !.checkIn       = IF body.checkIn # NoTime THEN body.checkIn ELSE @,
        !.checkOut      = IF body.checkOut # NoTime THEN body.checkOut ELSE @,
        !.status        = IF body.status # None THEN body.status ELSE @,
        !.roomId        = IF body.roomId # NoId THEN body.roomId ELSE @,
        !.paymentStatus = IF body.paymentStatus # None THEN body.paymentStatus ELSE @]

PutBookingSelfBlocking(id, body) ==
    /\ UNCHANGED <<rooms, payments, now, reqs>>
    /\ IF /\ body.roomId # NoId /\ body.checkIn # NoTime /\ body.checkOut # NoTime
          /\ ~checkAvailability(bookings, body.roomId, body.checkIn, body.checkOut, NoId)
          THEN Respond("putBooking", 409, NoId, "Room is unavailable")
               /\ UNCHANGED bookings
       ELSE IF id \notin DOMAIN bookings
          THEN Respond("putBooking", 500, NoId, "error") /\ UNCHANGED bookings
       ELSE /\ bookings' = [bookings EXCEPT ![id] = ApplyBookingUpdates(@, body)]
            /\ Respond("putBooking", 200, NoId, None)

\* Lines 316-361.  The availability check runs only when roomId, checkIn and
\* checkOut are all supplied; update() of a missing document throws and is
\* answered 500.
PutBooking(id, body) ==
    /\ UNCHANGED <<rooms, payments, now, reqs>>
    /\ IF /\ body.roomId # NoId /\ body.checkIn # NoTime /\ body.checkOut # NoTime
          /\ ~checkAvailability(bookings, body.roomId, body.checkIn, body.checkOut, id)
          THEN Respond("putBooking", 409, NoId, "Room is unavailable")
               /\ UNCHANGED bookings
       ELSE IF id \notin DOMAIN bookings
          THEN Respond("putBooking", 500, NoId, "error") /\ UNCHANGED bookings
       ELSE /\ bookings' = [bookings EXCEPT ![id] = ApplyBookingUpdates(@, body)]
            /\ Respond("putBooking", 200, NoId, None)

\* ---------------------------------- POST /bookings/:id/cancel (bookings.js)

CancelAnyone(id, uid, role) ==
    /\ UNCHANGED <<rooms, payments, now, reqs>>
    /\ IF id \notin DOMAIN bookings
          THEN Respond("cancel", 404, NoId, "Booking not found") /\ UNCHANGED bookings
       ELSE /\ bookings' = [bookings EXCEPT ![id].status = "cancelled"]
            /\ Respond("cancel", 200, NoId, None)

\* Lines 366-389.
Cancel(id, uid, role) ==
    /\ UNCHANGED <<rooms, payments, now, reqs>>
    /\ IF id \notin DOMAIN bookings
          THEN Respond("cancel", 404, NoId, "Booking not found") /\ UNCHANGED bookings
       ELSE IF role # "admin" /\ role # "manager" /\ bookings[id].userId # uid
          THEN Respond("cancel", 403, NoId, "Unauthorized") /\ UNCHANGED bookings
       ELSE /\ bookings' = [bookings EXCEPT ![id].status = "cancelled"]
            /\ Respond("cancel", 200, NoId, None)

\* ------------------------------------- POST /payments/webhook (payments.js)

\* status.toLowerCase() on the statuses the model sends.
toLowerCase(status) == IF status = "SUCCESS" THEN "success" ELSE status

\* where('customer_reference', '==', ref).limit(1): the first match in
\* document-id order, as a set of at most one id.
FindPendingByReference(pays, ref) ==
    LET q == {p \in DOMAIN pays :
                 pays[p].customer_reference = ref /\ pays[p].status = "pending"}
    IN  IF q = {} THEN {} ELSE {CHOOSE p \in q : \A o \in q : p <= o}

FindByTimestamp(pays, ref) ==
    LET q == {p \in DOMAIN pays : pays[p].customer_reference[2] = ref[2]}
    IN  IF q = {} THEN {} ELSE {CHOOSE p \in q : \A o \in q : p <= o}

FindByReference(pays, ref) ==
    LET q == {p \in DOMAIN pays : pays[p].customer_reference = ref}
    IN  IF q = {} THEN {} ELSE {CHOOSE p \in q : \A o \in q : p <= o}

\* Lines 380-396: the batch of the success branch.  commit() applies both
\* updates or, when the booking document does not exist, neither.  The
\* timestamps (paidAt, updatedAt, createdAt) are written with the fields
\* modelled and are left out.
SuccessBatchSplit(pays, books, doc, txid) ==
    IF pays[doc].bookingId \in DOMAIN books
       THEN [ok |-> TRUE,
             payments |-> [pays EXCEPT ![doc].status = "success",
                                       ![doc].externalReference = txid],
             bookings |-> [books EXCEPT ![pays[doc].bookingId].paymentStatus = "paid",
                                        ![pays[doc].bookingId].status = "confirmed"]]
       ELSE [ok |-> FALSE,
             payments |-> [pays EXCEPT ![doc].status = "success",
                                       ![doc].externalReference = txid],
             bookings |-> books]

SuccessBatch(pays, books, doc, txid) ==
    IF pays[doc].bookingId \in DOMAIN books
       THEN [ok |-> TRUE,
             payments |-> [pays EXCEPT ![doc].status = "success",
                                       ![doc].externalReference = txid],
             bookings |-> [books EXCEPT ![pays[doc].bookingId].paymentStatus = "paid",
                                        ![pays[doc].bookingId].status = "confirmed"]]
       ELSE [ok |-> FALSE, payments |-> pays, bookings |-> books]

\* Lines 362-406 as a function of the stored documents and the body, for a
\* delivery during which the store does not fail: the documents after it and
\* the status code sent.
WebhookResult(pays, books, status, ref, txid, message) ==
    LET q == FindByReference(pays, ref)
    IN  IF ref = NoRef
           THEN [code |-> 400, payments |-> pays, bookings |-> books]
        ELSE IF q = {}
           THEN [code |-> 200, payments |-> pays, bookings |-> books]
        ELSE LET doc == CHOOSE p \in q : TRUE
             IN  IF status # None /\ toLowerCase(status) = "success"
                    THEN LET b == SuccessBatch(pays, books, doc, txid)
                         IN  [code |-> IF b.ok THEN 200 ELSE 500,
                              payments |-> b.payments, bookings |-> b.bookings]
                 ELSE [code |-> 200,
                       payments |-> [pays EXCEPT ![doc].status = "failed",
                                                 ![doc].failureReason = message],
                       bookings |-> books]

\* Lines 362-406.  The handler's reads and its one write are a lookup and a
\* single commit or update; payments and bookings are never deleted and a
\* payment's bookingId never changes, so the handler is one step.  A store
\* failure (ok = FALSE) at the lookup or at the write leaves the documents as
\* they were and is answered 500 (line 404).
Webhook(status, ref, txid, message, ok) ==
    /\ UNCHANGED <<rooms, now, reqs>>
    /\ LET r == WebhookResult(payments, bookings, status, ref, txid, message)
       IN  IF ok \/ ref = NoRef
              THEN /\ payments' = r.payments
                   /\ bookings' = r.bookings
                   /\ Respond("webhook", r.code, NoId, None)
              ELSE /\ UNCHANGED <<payments, bookings>>
                   /\ Respond("webhook", 500, NoId, None)

\* ------------------------------------------ PUT /payments/:id (payments.js)

\* Lines 256-272: the payment is read and its status overwritten with the
\* status of the body, whatever both are.  The booking update is a second
\* write, after another await.
PutPaymentWrite(s, id, status, ok) ==
    /\ FreeSlot(s)
    /\ UNCHANGED <<rooms, bookings, now>>
    /\ IF status = None
          THEN Respond("putPayment", 400, NoId, "Status is required")
               /\ UNCHANGED <<payments, reqs>>
       ELSE IF id \notin DOMAIN payments
          THEN Respond("putPayment", 404, NoId, "Payment not found")
               /\ UNCHANGED <<payments, reqs>>
       ELSE IF ~ok
          THEN Respond("putPayment", 500, NoId, "error") /\ UNCHANGED <<payments, reqs>>
       ELSE /\ payments' = [payments EXCEPT ![id].status = status]
            /\ reqs' = [reqs EXCEPT ![s] =
                          [op |-> "putPayment", pc |-> "written", id |-> id,
                           status |-> status, bookingId |-> payments[id].bookingId]]
            /\ UNCHANGED res

\* Lines 277-283: bookingUpdates, as the set of fields it holds.
bookingUpdates(status) ==
    IF status = "success" \/ status = "paid" THEN {"paymentStatus", "status"}
    ELSE IF status = "failed" THEN {"paymentStatus"}
    ELSE {}

\* Lines 275-287.  update() throws for a document that does not exist and for
\* an empty update map ("At least one field must be updated"); both are
\* caught at line 288 and answered 500, with the payment already written.
PutPaymentSync(s, ok) ==
    /\ reqs[s].op = "putPayment" /\ reqs[s].pc = "written"
    /\ UNCHANGED <<rooms, payments, now>>
    /\ reqs' = [reqs EXCEPT ![s] = Idle]
    /\ LET b == reqs[s].bookingId
           u == bookingUpdates(reqs[s].status)
       IN  IF ~ok \/ u = {} \/ b \notin DOMAIN bookings
              THEN Respond("putPayment", 500, NoId, "error")
                   /\ UNCHANGED bookings
              ELSE /\ bookings' = [bookings EXCEPT
                        ![b].paymentStatus =
                            IF reqs[s].status = "failed" THEN "failed" ELSE "paid",
                        ![b].status =
                            IF "status" \in u THEN "confirmed" ELSE @]
                   /\ Respond("putPayment", 200, NoId, "Payment status updated")

\* ------------------------------------ POST /payments/initiate (payments.js)

\* Lines 297-322: a new payment document, pending, with a fresh reference and
\* the bookingId of the body as it came.
InitiateRecord(s, bookingId, phoneNumber, amount, rnd, pid, ok) ==
    /\ FreeSlot(s)
    /\ UNCHANGED <<rooms, bookings, now>>
    /\ IF bookingId = NoId \/ phoneNumber = None \/ amount = None
          THEN Respond("initiate", 400, NoId, "Missing details")
               /\ UNCHANGED <<payments, reqs>>
       ELSE /\ RoomForPayment
            /\ pid \notin DOMAIN payments
            /\ LET internalReference == generateReference(now, rnd)
               IN  IF ok
                      THEN /\ payments' = payments @@
                                (pid :> [bookingId          |-> bookingId,
                                         status             |-> "pending",
                                         customer_reference |-> internalReference,
                                         externalReference  |-> None,
                                         failureReason      |-> None])
                           /\ reqs' = [reqs EXCEPT ![s] =
                                         [op |-> "initiate", pc |-> "recorded",
                                          pid |-> pid, ref |-> internalReference]]
                           /\ UNCHANGED res
                      ELSE /\ Respond("initiate", 500, NoId, "error")
                           /\ UNCHANGED <<payments, reqs>>

\* Lines 325-351: the gateway call.  When it is rejected or unreachable the
\* payment is marked failed and the answer is 502; a store failure in that
\* update is caught at line 353 and answered 500.
InitiateGateway(s, accepted, ok) ==
    /\ reqs[s].op = "initiate" /\ reqs[s].pc = "recorded"
    /\ UNCHANGED <<rooms, bookings, now>>
    /\ reqs' = [reqs EXCEPT ![s] = Idle]
    /\ IF accepted
          THEN /\ ok
               /\ Respond("initiate", 200, NoId, "Payment prompt sent")
               /\ UNCHANGED payments
       ELSE IF ok
          THEN /\ payments' = [payments EXCEPT
                                  ![reqs[s].pid].status = "failed",
                                  ![reqs[s].pid].failureReason = "API Call Failed"]
               /\ Respond("initiate", 502, NoId, "Failed to trigger mobile money prompt")
       ELSE /\ Respond("initiate", 500, NoId, "error")
            /\ UNCHANGED payments

\* --------------------------------------------------- POST /rooms (rooms.js)

\* The rooms the model's bounded store has room for: the ones of Init and one
\* more for each request slot.
MaxRooms == NumRooms + NumSlots

RoomForRoom ==
    Cardinality(DOMAIN rooms) + Cardinality(InFlight("postRoom", {"checked"}))
        < MaxRooms

\* The store allocates the id of an added room; the lowest unused one stands
\* for it.
NewRoomId == Cardinality(DOMAIN rooms) + 1

\* Lines 150-178: the required fields and the query for a room that already
\* has the roomNumber.  A request that passes waits for rooms.add in slot s.
PostRoomCheck(s, body, ok) ==
    /\ FreeSlot(s)
    /\ UNCHANGED <<rooms, bookings, payments, now>>
    /\ IF body.roomNumber = NoId \/ body.type = None \/ body.price = 0
          THEN Respond("postRoom", 400, NoId, "Room Number, Type, and Price are required.")
               /\ UNCHANGED reqs
       ELSE IF ~ok
          THEN Respond("postRoom", 500, NoId, "error") /\ UNCHANGED reqs
       ELSE IF \E r \in DOMAIN rooms : rooms[r].roomNumber = body.roomNumber
          THEN Respond("postRoom", 409, NoId, "Room already exists")
               /\ UNCHANGED reqs
       ELSE /\ RoomForRoom
            /\ reqs' = [reqs EXCEPT ![s] =
                          [op |-> "postRoom", pc |-> "checked", body |-> body]]
            /\ UNCHANGED res

\* Lines 180-198: roomData and rooms.add(roomData).
PostRoomAdd(s, ok) ==
    /\ reqs[s].op = "postRoom" /\ reqs[s].pc = "checked"
    /\ UNCHANGED <<bookings, payments, now>>
    /\ reqs' = [reqs EXCEPT ![s] = Idle]
    /\ IF ok
          THEN /\ rooms' = rooms @@
                    (NewRoomId :>
                        [roomNumber |-> reqs[s].body.roomNumber,
                         price      |-> reqs[s].body.price,
                         status     |-> OrDefault(reqs[s].body.status, "Available")])
               /\ Respond("postRoom", 201, NewRoomId, "Room created successfully")
          ELSE /\ UNCHANGED rooms
               /\ Respond("postRoom", 500, NoId, "error")

\* ------------------------------------------------ PUT /rooms/:id (rooms.js)

\* Lines 259-278: the bookings of the room the batch truncates: pending or
\* confirmed, checkOut after now, checkIn not after now.
InProgressStarted(books, id, at) ==
    {d \in DOMAIN books :
        /\ books[d].roomId = id
        /\ books[d].status \in {"confirmed", "pending"}
        /\ books[d].checkOut > at}

InProgress(books, id, at) ==
    {d \in DOMAIN books :
        /\ books[d].roomId = id
        /\ books[d].status \in {"confirmed", "pending"}
        /\ books[d].checkOut > at
        /\ books[d].checkIn <= at}

\* Lines 210-278: the room lookup, the roomNumber duplicate check and, when
\* the body sets status to 'Available' or 'Maintenance', new Date() and the
\* query for the bookings in progress, whose references the batch collects.
\* With any other status the handler goes on to roomRef.update.
PutRoomQuery(s, id, body, ok) ==
    /\ FreeSlot(s)
    /\ UNCHANGED <<rooms, bookings, payments, now>>
    /\ IF ~ok
          THEN Respond("putRoom", 500, NoId, "error") /\ UNCHANGED reqs
       ELSE IF id \notin DOMAIN rooms
          THEN Respond("putRoom", 404, NoId, "Room not found") /\ UNCHANGED reqs
       ELSE IF /\ body.roomNumber # NoId
               /\ body.roomNumber # rooms[id].roomNumber
               /\ \E r \in DOMAIN rooms : rooms[r].roomNumber = body.roomNumber
          THEN Respond("putRoom", 409, NoId, "Room already exists")
               /\ UNCHANGED reqs
       ELSE /\ reqs' = [reqs EXCEPT ![s] =
                          [op |-> "putRoom", pc |-> "queried", id |-> id,
                           body |-> body,
                           at |-> IF body.status \in {"Available", "Maintenance"}
                                     THEN now ELSE NoTime,
                           ending |-> IF body.status \in {"Available", "Maintenance"}
                                         THEN InProgress(bookings, id, now)
                                         ELSE {}]]
            /\ UNCHANGED res

\* Lines 265-283: batch.commit(), made when the batch holds an update.  It
\* writes checkOut = now (the instant read at line 257) to every booking
\* collected, all of them or, when the store fails, none; the failure is
\* caught at line 294 and answered 500 with the room not updated.
PutRoomBatch(s, ok) ==
    /\ reqs[s].op = "putRoom" /\ reqs[s].pc = "queried"
    /\ reqs[s].ending # {}
    /\ UNCHANGED <<rooms, payments, now>>
    /\ IF ok
          THEN /\ bookings' = [d \in DOMAIN bookings |->
                                  IF d \in reqs[s].ending
                                     THEN [bookings[d] EXCEPT !.checkOut = reqs[s].at]
                                     ELSE bookings[d]]
               /\ reqs' = [reqs EXCEPT ![s].pc = "batched", ![s].at = NoTime,
                                       ![s].ending = {}]
               /\ UNCHANGED res
          ELSE /\ UNCHANGED bookings
               /\ reqs' = [reqs EXCEPT ![s] = Idle]
               /\ Respond("putRoom", 500, NoId, "error")

\* Lines 242-292: roomRef.update(cleanUpdates) and the response.  A falsy
\* field of the body (price 0, no status) is left out of cleanUpdates.
PutRoomUpdate(s, ok) ==
    /\ reqs[s].op = "putRoom"
    /\ \/ reqs[s].pc = "batched"
       \/ reqs[s].pc = "queried" /\ reqs[s].ending = {}
    /\ UNCHANGED <<bookings, payments, now>>
    /\ reqs' = [reqs EXCEPT ![s] = Idle]
    /\ LET id == reqs[s].id
           body == reqs[s].body
       IN  IF ok
              THEN /\ rooms' = [rooms EXCEPT
                        ![id].roomNumber =
                            IF body.roomNumber # NoId THEN body.roomNumber ELSE @,
                        ![id].price =
                            IF body.price # 0 THEN body.price ELSE @,
                        ![id].status =
                            IF body.status # None THEN body.status ELSE @]
                   /\ Respond("putRoom", 200, NoId, "Room updated successfully")
              ELSE /\ UNCHANGED rooms
                   /\ Respond("putRoom", 500, NoId, "error")

\* ----------------------------------- GET /rooms and GET /rooms/:id (rooms.js)

\* nextAvailable: null in the response.  A key left out of the response is
\* NoTime.
NullDate == -3

\* Lines 25-28 and 110-113: where status in ['confirmed', 'pending'] and
\* checkOut > now.
Upcoming(books, at) ==
    {d \in DOMAIN books :
        books[d].status \in {"confirmed", "pending"} /\ books[d].checkOut > at}

\* The order of a snapshot whose query has a range filter on checkOut and no
\* orderBy: by checkOut, then by document id.
SnapshotBefore(books, a, b) ==
    \/ books[a].checkOut < books[b].checkOut
    \/ books[a].checkOut = books[b].checkOut /\ a < b

\* Line 50: roomBookings.sort((a, b) => a.checkIn - b.checkIn), a stable sort
\* of the snapshot's order.
SortedBefore(books, a, b) ==
    \/ books[a].checkIn < books[b].checkIn
    \/ books[a].checkIn = books[b].checkIn /\ SnapshotBefore(books, a, b)

\* Line 114: orderBy('checkIn', 'asc'), then the range field, then the id.
OrderByBefore(books, a, b) ==
    \/ books[a].checkIn < books[b].checkIn
    \/ /\ books[a].checkIn = books[b].checkIn
       /\ \/ books[a].checkOut < books[b].checkOut
          \/ books[a].checkOut = books[b].checkOut /\ a < b

\* Lines 55-61 and 121-131: the loop stops at the first booking, in the order
\* of its list, with now >= checkIn and now < checkOut.
Covering(books, docs, at) ==
    {d \in docs : at >= books[d].checkIn /\ at < books[d].checkOut}

\* Lines 48-61: the first one of the sorted roomBookings.
FirstOfSorted(books, docs, at) ==
    LET covering == Covering(books, docs, at)
    IN  IF covering = {} THEN {}
        ELSE {CHOOSE c \in covering :
                 \A o \in covering \ {c} : SortedBefore(books, c, o)}

\* Lines 110-131: the first one of bookingsSnapshot.docs.
FirstOfSnapshot(books, docs, at) ==
    LET covering == Covering(books, docs, at)
    IN  IF covering = {} THEN {}
        ELSE {CHOOSE c \in covering :
                 \A o \in covering \ {c} : OrderByBefore(books, c, o)}

Projected(books, found) ==
    IF found = {}
       THEN [status |-> "Available", nextAvailable |-> NullDate]
       ELSE [status |-> "Occupied",
             nextAvailable |-> books[CHOOSE c \in found : TRUE].checkOut]

\* Lines 42-68: one room of the list.
ListedRoomStored(rms, books, at, id) ==
    IF rms[id].status # "Available"
       THEN [status |-> rms[id].status, nextAvailable |-> NullDate]
    ELSE Projected(books,
            FirstOfSorted(books, {d \in Upcoming(books, at) : books[d].roomId = id},
                          at))

ListedRoom(rms, books, at, id) ==
    IF rms[id].status = "Maintenance"
       THEN [status |-> rms[id].status, nextAvailable |-> NullDate]
    ELSE Projected(books,
            FirstOfSorted(books, {d \in Upcoming(books, at) : books[d].roomId = id},
                          at))

\* Lines 106-135: the single room.  In Maintenance the document is returned
\* as stored: rooms.js never stores a nextAvailable, so the key is left out.
SingleRoom(rms, books, at, id) ==
    IF rms[id].status # "Maintenance"
       THEN Projected(books,
               FirstOfSnapshot(books, {d \in Upcoming(books, at) : books[d].roomId = id},
                               at))
    ELSE [status |-> rms[id].status, nextAvailable |-> NoTime]

RespondData(op, code, data) ==
    res' = [op |-> op, code |-> code, id |-> NoId, msg |-> None, data |-> data]

\* Lines 11-91 without the type and status filters: every room with its
\* computed status.
GetRooms ==
    /\ UNCHANGED <<rooms, bookings, payments, now, reqs>>
    /\ RespondData("getRooms", 200,
                   [r \in DOMAIN rooms |-> ListedRoom(rooms, bookings, now, r)])

\* Lines 97-144.
GetRoom(id) ==
    /\ UNCHANGED <<rooms, bookings, payments, now, reqs>>
    /\ IF id \notin DOMAIN rooms
          THEN Respond("getRoom", 404, NoId, "Room not found")
          ELSE RespondData("getRoom", 200, SingleRoom(rooms, bookings, now, id))

\* ----------------------------------------- POST /availability (availability.js)

\* server.js line 91: module.exports = { app }.  availability.js line 4 takes
\* db and admin from it, and both are undefined.
ServerExports == {"app"}

\* Lines 23-24: today at 00:00.
Today(at) == at - (at % DayLen)

\* Lines 74-79: the three-way overlap test.
SearchOverlap(checkInDate, checkOutDate, bookingCheckIn, bookingCheckOut) ==
    \/ checkInDate >= bookingCheckIn /\ checkInDate < bookingCheckOut
    \/ checkOutDate > bookingCheckIn /\ checkOutDate <= bookingCheckOut
    \/ checkInDate <= bookingCheckIn /\ checkOutDate >= bookingCheckOut

\* Lines 45-101, no guests given: the rooms with isActive == true that no
\* confirmed booking overlaps.
availableRooms(rms, books, checkInDate, checkOutDate) ==
    LET roomIds == {r \in DOMAIN rms :
                       "isActive" \in DOMAIN rms[r] /\ rms[r].isActive = TRUE}
        bookedRoomIds ==
            {books[d].roomId : d \in
                {d \in DOMAIN books :
                    /\ books[d].status = "confirmed"
                    /\ books[d].roomId \in roomIds
                    /\ SearchOverlap(checkInDate, checkOutDate,
                                     books[d].checkIn, books[d].checkOut)}}
    IN  roomIds \ bookedRoomIds

\* Lines 7-126.  db.collection at line 46 throws on the undefined db; the
\* catch at line 117 answers 500.
PostAvailability(checkIn, checkOut) ==
    /\ UNCHANGED <<rooms, bookings, payments, now, reqs>>
    /\ IF checkIn = NoTime \/ checkOut = NoTime
          THEN RespondData("availability", 400, {})
       ELSE IF checkIn < Today(now)
          THEN RespondData("availability", 400, {})
       ELSE IF checkOut <= checkIn
          THEN RespondData("availability", 400, {})
       ELSE IF "db" \notin ServerExports
          THEN RespondData("availability", 500, {})
       ELSE RespondData("availability", 200,
                        availableRooms(rooms, bookings, checkIn, checkOut))

\* ------------------------------------------------------------ request bodies

\* Bodies of POST /bookings of the booking specification: cash bookings of any
\* room and dates.
CreateBodies ==
    [roomId        : RoomIds \cup {GhostRoom},
     start         : (Times \ {MaxTime}) \cup {NaD},
     end           : Times \ {0},
     status        : {None},
     paymentStatus : {None},
     paymentMethod : {"Cash"},
     receivedBy    : {None, "staff"},
     paymentPhone  : {None},
     userId        : {"u1"}]

\* Bodies of POST /bookings of the payment specification: mobile-money
\* bookings of room 1.
PayingBodies ==
    [roomId        : {1},
     start         : {0},
     end           : {1},
     status        : {None},
     paymentStatus : {None},
     paymentMethod : {"Mobile Money"},
     receivedBy    : {None},
     paymentPhone  : {"p"},
     userId        : {"u1"}]

\* Bodies of PUT /bookings/:id.
EditBodies ==
    [roomId        : RoomIds \cup {NoId},
     checkIn       : (Times \ {MaxTime}) \cup {NoTime},
     checkOut      : (Times \ {0}) \cup {NoTime},
     status        : {None, "pending"},
     paymentStatus : {None}]

\* Bodies of PUT /bookings/:id of the room specification: the booking is moved
\* to a room, its dates unchanged.
MoveBodies ==
    [roomId        : RoomIds,
     checkIn       : {NoTime},
     checkOut      : {NoTime},
     status        : {None},
     paymentStatus : {None}]

\* Bodies of PUT /rooms/:id.
RoomBodies ==
    [roomNumber : {NoId},
     price      : {0},
     status     : {"Available", "Maintenance", "Occupied"}]

\* The room ids of PUT /rooms/:id in the room specification: the first room
\* and one that does not exist.
EditedRooms == {1, GhostRoom}

\* Bodies of POST /payments/webhook: the statuses sent, and the references: the
\* ones generateReference can have produced by now, one that it never produces
\* within the model's clock, and none.
WebhookStatuses == {"success", "SUCCESS", "failed"}
UnknownRef == generateReference(MaxTime + 1, 0)
References ==
    {generateReference(ms, rnd) : ms \in 0..now, rnd \in 0..MaxRand}
        \cup {UnknownRef, NoRef}
TxIds == {"g1"}
PutStatuses == {"success", "failed", None}

\* The payment specification runs one multi-step request at a time; the
\* webhook and the cancellation run between its steps.
PaySlots == {1}

LowestFree(ids, used) == {i \in ids \ used : \A j \in ids \ used : i <= j}

\* --------------------------------------------------------- specifications

\* The payment flow: bookings are created with a mobile-money payment, paid
\* again through retry-initiate, and settled by the webhook and by the
\* explicit status update.
Next ==
    \/ \E s \in PaySlots, body \in PayingBodies : CreateValidate(s, body)
    \/ \E s \in PaySlots, ok \in BOOLEAN : CreateInsert(s, ok)
    \/ \E s \in PaySlots, ok \in BOOLEAN, rnd \in 0..MaxRand, pid \in PayIds :
          CreatePayment(s, ok, rnd, pid)
    \/ \E s \in PaySlots, accepted \in BOOLEAN : CreateGateway(s, accepted)
    \/ \E status \in WebhookStatuses, ref \in References,
          txid \in TxIds, ok \in BOOLEAN :
          Webhook(status, ref, txid, "declined", ok)
    \/ \E s \in PaySlots, id \in PayIds, status \in PutStatuses, ok \in BOOLEAN :
          PutPaymentWrite(s, id, status, ok)
    \/ \E s \in PaySlots, ok \in BOOLEAN : PutPaymentSync(s, ok)
    \/ \E s \in PaySlots, bookingId \in DOMAIN bookings \cup {GhostBooking, NoId},
          rnd \in 0..MaxRand, pid \in PayIds, ok \in BOOLEAN :
          InitiateRecord(s, bookingId, "p", "a", rnd, pid, ok)
    \/ \E s \in PaySlots, accepted \in BOOLEAN, ok \in BOOLEAN :
          InitiateGateway(s, accepted, ok)

Spec == Init /\ [][Next]_vars

\* The booking calendar: bookings are created, edited and cancelled.  Each booking's payment document takes the lowest free id and
\* the random part 0 of its reference.
NextBooking ==
    \/ \E s \in Slots, body \in CreateBodies : CreateValidate(s, body)
    \/ \E s \in Slots, ok \in BOOLEAN : CreateInsert(s, ok)
    \/ \E s \in Slots, ok \in BOOLEAN, pid \in LowestFree(PayIds, DOMAIN payments) :
          CreatePayment(s, ok, 0, pid)
    \/ \E s \in Slots : CreateGateway(s, TRUE)
    \/ \E id \in BookingIds, body \in EditBodies : PutBooking(id, body)
    \/ \E id \in BookingIds, uid \in Users, role \in Roles : Cancel(id, uid, role)

SpecBooking == Init /\ [][NextBooking]_vars

\* Bodies of POST /bookings of the room specification: cash bookings taken and
\* paid at the desk.
StayBodies ==
    [roomId        : RoomIds,
     start         : Times \ {MaxTime},
     end           : Times \ {0},
     status        : {None},
     paymentStatus : {"paid"},
     paymentMethod : {"Cash"},
     receivedBy    : {"staff"},
     paymentPhone  : {None},
     userId        : {"u1"}]

\* The rooms over time: stays are booked, moved to another room and cancelled,
\* the clock advances, rooms are edited, listed and searched.
NextRoom ==
    \/ Tick
    \/ \E s \in PaySlots, body \in StayBodies : CreateValidate(s, body)
    \/ \E s \in PaySlots : CreateInsert(s, TRUE)
    \/ \E s \in PaySlots, pid \in LowestFree(PayIds, DOMAIN payments) :
          CreatePayment(s, TRUE, 0, pid)
    \/ \E s \in PaySlots : CreateGateway(s, TRUE)
    \/ \E id \in BookingIds : Cancel(id, "u1", "customer")
    \/ \E id \in BookingIds, body \in MoveBodies : PutBooking(id, body)
    \/ \E s \in PaySlots, id \in EditedRooms, body \in RoomBodies,
          ok \in BOOLEAN : PutRoomQuery(s, id, body, ok)
    \/ \E s \in PaySlots, ok \in BOOLEAN : PutRoomBatch(s, ok)
    \/ \E s \in PaySlots, ok \in BOOLEAN : PutRoomUpdate(s, ok)
    \/ GetRooms
    \/ \E id \in RoomIds \cup {GhostRoom} : GetRoom(id)
    \/ \E checkIn \in Times \cup {NoTime}, checkOut \in Times :
          PostAvailability(checkIn, checkOut)

SpecRoom == Init /\ [][NextRoom]_vars

\* Prices: rooms of different prices are booked, one request at a time, and
\* the bookings edited.
NextPrice ==
    \/ \E s \in PaySlots, body \in StayBodies : CreateValidate(s, body)
    \/ \E s \in PaySlots : CreateInsert(s, TRUE)
    \/ \E s \in PaySlots, pid \in LowestFree(PayIds, DOMAIN payments) :
          CreatePayment(s, TRUE, 0, pid)
    \/ \E s \in PaySlots : CreateGateway(s, TRUE)
    \/ \E id \in BookingIds, body \in EditBodies : PutBooking(id, body)

SpecPrice == InitPriced /\ [][NextPrice]_vars

\* ------------------------------------------------------------------ claims

Active(b) == bookings[b].status \in {"pending", "confirmed"}

Overlap(a, b) ==
    /\ bookings[a].checkIn < bookings[b].checkOut
    /\ bookings[a].checkOut > bookings[b].checkIn

\* C1: no two distinct bookings of the same room whose status is pending or
\* confirmed have overlapping half-open [checkIn, checkOut) intervals.
C1_NoDoubleBooking ==
    \A a, b \in DOMAIN bookings :
        (a # b /\ bookings[a].roomId = bookings[b].roomId /\ Active(a) /\ Active(b))
            => ~Overlap(a, b)

\* C2: checkAvailability(roomId, start, end, excludeBookingId) is false if and
\* only if some pending or confirmed booking of roomId other than
\* excludeBookingId has start < its checkOut and end > its checkIn; so
\* cancelled bookings, bookings of other rooms, the excluded booking and
\* bookings that only touch at an endpoint never make it false.
C2_CheckAvailabilityIff ==
    \A roomId \in RoomIds, start \in Times, end \in Times,
       excludeBookingId \in BookingIds \cup {NoId} :
        checkAvailability(bookings, roomId, start, end, excludeBookingId)
            = ~\E b \in DOMAIN bookings :
                  /\ b # excludeBookingId
                  /\ bookings[b].roomId = roomId
                  /\ Active(b)
                  /\ start < bookings[b].checkOut
                  /\ end > bookings[b].checkIn

\* A creation was refused as unavailable while the store holds a cancelled
\* booking and a pending booking of the same room that an edit of the pending
\* one, to dates that touch its own, passes.
C2_Witness ==
    /\ res.op = "postBooking" /\ res.code = 409
    /\ \E a, b \in DOMAIN bookings :
          /\ bookings[a].status = "cancelled"
          /\ bookings[b].status = "pending"
          /\ bookings[a].roomId = bookings[b].roomId
          /\ bookings[b].checkIn < bookings[b].checkOut
          /\ checkAvailability(bookings, bookings[b].roomId, bookings[b].checkOut,
                               bookings[b].checkOut + 1, NoId)
          /\ ~checkAvailability(bookings, bookings[b].roomId, bookings[b].checkIn,
                                bookings[b].checkOut, NoId)
          /\ checkAvailability(bookings, bookings[b].roomId, bookings[b].checkIn,
                               bookings[b].checkOut, b)

\* Lines 382-394: what the success branch writes to the payment and to the
\* booking.
PaymentSettled(pays, doc, txid) ==
    [pays EXCEPT ![doc].status = "success", ![doc].externalReference = txid]

BookingConfirmed(books, b) ==
    [books EXCEPT ![b].paymentStatus = "paid", ![b].status = "confirmed"]

Matches(ref) == {p \in DOMAIN payments : payments[p].customer_reference = ref}

\* C3: a webhook delivery with status success for a reference that matches a
\* payment, whether or not the store fails during it, either applies the
\* payment update (success, external transaction id) together with the
\* booking update (paid, confirmed), or changes no payment and no booking.
C3_WebhookSuccessAtomic ==
    [][res'.op = "webhook" =>
       \A status \in {"success", "SUCCESS"}, ref \in References, txid \in TxIds,
          ok \in BOOLEAN :
          (Matches(ref) # {} /\ Webhook(status, ref, txid, "declined", ok))
              => \/ payments' = payments /\ bookings' = bookings
                 \/ \E p \in Matches(ref) :
                       /\ payments[p].bookingId \in DOMAIN bookings
                       /\ payments' = PaymentSettled(payments, p, txid)
                       /\ bookings' = BookingConfirmed(bookings, payments[p].bookingId)]_vars

\* The webhook was acknowledged and a payment is settled with the gateway's
\* transaction id, its booking paid and confirmed.
C3_Witness ==
    /\ res.op = "webhook" /\ res.code = 200
    /\ \E p \in DOMAIN payments :
          /\ payments[p].status = "success"
          /\ payments[p].externalReference \in TxIds
          /\ payments[p].bookingId \in DOMAIN bookings
          /\ bookings[payments[p].bookingId].paymentStatus = "paid"
          /\ bookings[payments[p].bookingId].status = "confirmed"

\* C4: delivering the same success payload twice in a row leaves every payment
\* and booking as delivering it once does.
C4_WebhookIdempotent ==
    \A status \in {"success", "SUCCESS"}, ref \in References, txid \in TxIds :
        LET once  == WebhookResult(payments, bookings, status, ref, txid, "declined")
            twice == WebhookResult(once.payments, once.bookings, status, ref, txid,
                                   "declined")
        IN  twice.payments = once.payments /\ twice.bookings = once.bookings

\* Two payments carry the same reference, one of them settled by a delivery of
\* it that was acknowledged.
C4_Witness ==
    /\ res.op = "webhook" /\ res.code = 200
    /\ \E p, q \in DOMAIN payments :
          /\ p # q
          /\ payments[p].customer_reference = payments[q].customer_reference
          /\ payments[p].status = "success"
          /\ payments[q].status = "pending"

\* C5: once a payment has status success or failed, no later step changes its
\* status.
C5_FirstTerminalStatusWins ==
    [][\A p \in DOMAIN payments :
          payments[p].status \in {"success", "failed"}
              => payments'[p].status = payments[p].status]_vars

\* C6: among the payments that reference the same booking at most one has
\* status success.
C6_AtMostOneSuccess ==
    \A p, q \in DOMAIN payments :
        (p # q /\ payments[p].bookingId = payments[q].bookingId)
            => ~(payments[p].status = "success" /\ payments[q].status = "success")

\* C7: a webhook delivery whose reference matches no stored payment, the store
\* not failing, is answered 200 and changes no payment and no booking.
C7_UnmatchedWebhookNoOp ==
    [][res'.op = "webhook" =>
       \A status \in WebhookStatuses, ref \in References \ {NoRef}, txid \in TxIds :
          (Matches(ref) = {} /\ Webhook(status, ref, txid, "declined", TRUE))
              => /\ res'.op = "webhook" /\ res'.code = 200
                 /\ payments' = payments
                 /\ bookings' = bookings]_vars

\* A webhook was acknowledged while payments are stored and none of them has
\* been touched by any delivery: the reference delivered matched none.
C7_Witness ==
    /\ res.op = "webhook" /\ res.code = 200
    /\ DOMAIN payments # {}
    /\ \E ref \in References \ {NoRef} : Matches(ref) = {}
    /\ \A p \in DOMAIN payments :
          /\ payments[p].status = "pending"
          /\ payments[p].externalReference = None
          /\ payments[p].failureReason = None

\* C8: every webhook delivery that carries a reference is answered 200 unless
\* the store fails.
C8_WebhookAlwaysAcknowledged ==
    [][\A status \in WebhookStatuses, ref \in References \ {NoRef}, txid \in TxIds :
          Webhook(status, ref, txid, "declined", TRUE)
              => res'.op = "webhook" /\ res'.code = 200]_vars

\* C9: no two payments carry the same customer_reference.
C9_ReferencesUnique ==
    \A p, q \in DOMAIN payments :
        p # q => payments[p].customer_reference # payments[q].customer_reference

\* C10: the step of booking creation in which the gateway call is rejected or
\* unreachable answers 201 with the booking id and leaves the stored bookings,
\* the booking of the request among them, as they were.
C10_GatewayFailureKeepsBooking ==
    [][\A s \in Slots :
          CreateGateway(s, FALSE)
              => /\ res'.op = "postBooking" /\ res'.code = 201
                 /\ res'.id = reqs[s].bookingId
                 /\ reqs[s].bookingId \in DOMAIN bookings'
                 /\ bookings' = bookings]_vars

\* A creation was answered 201 after its gateway call failed, and its booking
\* is stored, pending and unpaid as created.
C10_Witness ==
    /\ res.op = "postBooking" /\ res.code = 201 /\ res.msg = "prompt failed"
    /\ res.id \in DOMAIN bookings
    /\ bookings[res.id].status = "pending"
    /\ bookings[res.id].paymentStatus = "unpaid"

\* The bookings of room id that are pending or confirmed and in progress at
\* instant at.
Qualifying(id, at) ==
    {b \in DOMAIN bookings :
        /\ bookings[b].roomId = id
        /\ Active(b)
        /\ bookings[b].checkIn <= at
        /\ at < bookings[b].checkOut}

\* C11: a room edit that sets status to Available or Maintenance reads the
\* clock and collects exactly the pending or confirmed bookings of the room
\* with checkIn <= now < checkOut; its commit gives each of them checkOut = now
\* with status, paymentStatus and checkIn as they were, and leaves every other
\* booking (cancelled, ended, not yet started, of another room) as it was.
C11_OverrideTruncatesInProgress ==
    [][res' = res =>
       \A s \in Slots :
          /\ (/\ reqs[s] = Idle
              /\ reqs'[s].op = "putRoom"
              /\ reqs'[s].body.status \in {"Available", "Maintenance"})
                => /\ reqs'[s].at = now
                   /\ reqs'[s].ending = Qualifying(reqs'[s].id, now)
          /\ (/\ reqs[s].op = "putRoom" /\ reqs[s].pc = "queried"
              /\ reqs'[s].op = "putRoom" /\ reqs'[s].pc = "batched")
                => /\ DOMAIN bookings' = DOMAIN bookings
                   /\ \A b \in DOMAIN bookings :
                         IF b \in reqs[s].ending
                            THEN /\ bookings'[b].checkOut = reqs[s].at
                                 /\ bookings'[b].status = bookings[b].status
                                 /\ bookings'[b].paymentStatus = bookings[b].paymentStatus
                                 /\ bookings'[b].checkIn = bookings[b].checkIn
                                 /\ bookings'[b].roomId = bookings[b].roomId
                            ELSE bookings'[b] = bookings[b]]_vars

\* The batch of an edit that puts a room in Maintenance was committed at
\* instant 1: the only booking of the room, begun at 0, is pending and ends at
\* 1, and a booking in progress in another room still ends at 2.
C11_Witness ==
    /\ now = 1
    /\ \E s \in Slots, a, b \in DOMAIN bookings :
          /\ reqs[s].op = "putRoom" /\ reqs[s].pc = "batched"
          /\ reqs[s].body.status = "Maintenance"
          /\ bookings[a].roomId = reqs[s].id
          /\ bookings[a].checkIn = 0 /\ bookings[a].checkOut = 1
          /\ bookings[a].status = "pending"
          /\ bookings[b].roomId # reqs[s].id
          /\ bookings[b].status = "pending"
          /\ bookings[b].checkIn = 0 /\ bookings[b].checkOut = 2

\* What C12 expects of room r at the clock's instant: the list's entry, and
\* the single room's entry with nextAvailable = inMaintenance when the room is
\* in Maintenance.
C12_Expected(r, inMaintenance) ==
    LET covering == Qualifying(r, now)
        list == ListedRoom(rooms, bookings, now, r)
        single == SingleRoom(rooms, bookings, now, r)
    IN  IF rooms[r].status = "Maintenance"
           THEN /\ list = [status |-> "Maintenance", nextAvailable |-> NullDate]
                /\ single = [status |-> "Maintenance", nextAvailable |-> inMaintenance]
        ELSE IF covering # {}
           THEN /\ list.status = "Occupied"
                /\ \E b \in covering :
                      /\ list.nextAvailable = bookings[b].checkOut
                      /\ \A o \in covering : bookings[b].checkIn <= bookings[o].checkIn
                /\ single = list
        ELSE /\ list = [status |-> "Available", nextAvailable |-> NullDate]
             /\ single = list

\* C12 as amended: the computed status is the stored one for a room in
\* Maintenance, with nextAvailable null in the list and left out of the single
\* room; otherwise Occupied with nextAvailable the checkOut of a covering
\* booking (one with the earliest checkIn) when a pending or confirmed booking
\* of the room has checkIn <= now < checkOut; otherwise Available with
\* nextAvailable null, whatever the stored status; outside Maintenance the
\* list and the single room agree.
C12_ComputedStatus == \A r \in DOMAIN rooms : C12_Expected(r, NoTime)

\* C12: as above, with nextAvailable null for a room in Maintenance at both
\* endpoints, which then agree for every room.
C12_SameAtBothEndpoints == \A r \in DOMAIN rooms : C12_Expected(r, NullDate)

\* The list was answered with one room in Maintenance and another, whose
\* stored status is Available, Occupied until its stay's checkOut.
C12_Witness ==
    /\ res.op = "getRooms" /\ res.code = 200
    /\ \E r, q \in DOMAIN rooms :
          /\ rooms[r].status = "Maintenance"
          /\ res.data[r].status = "Maintenance"
          /\ rooms[q].status = "Available"
          /\ res.data[q].status = "Occupied"
          /\ res.data[q].nextAvailable \in Times
          /\ res.data[q].nextAvailable > now

\* C13: every stored booking has checkOut > checkIn.
C13_CheckOutAfterCheckIn ==
    \A b \in DOMAIN bookings : bookings[b].checkOut > bookings[b].checkIn

\* Math.ceil of the nights of an interval, at least 1.
Nights(checkIn, checkOut) ==
    LET n == Ceil(checkOut - checkIn, DayLen) IN IF n > 0 THEN n ELSE 1

\* C14: every stored booking's totalPrice is its room's nightly price times
\* the nights of its stored interval, rounded up, at least 1.
C14_TotalPriceMatchesInterval ==
    \A b \in DOMAIN bookings :
        bookings[b].roomId \in DOMAIN rooms
            => bookings[b].totalPrice
                   = rooms[bookings[b].roomId].price
                       * Nights(bookings[b].checkIn, bookings[b].checkOut)

\* C15: an availability search for a future interval leaves out the room of
\* every pending booking the interval overlaps, and lists the room of a pending
\* booking that the interval touches at an endpoint when no pending or
\* confirmed booking of that room overlaps it.
C15_SearchAgreesWithBookings ==
    [][res'.op = "availability" =>
       \A checkIn \in Times, checkOut \in Times :
          (/\ checkIn >= Today(now) /\ checkIn < checkOut
           /\ PostAvailability(checkIn, checkOut))
              => \A b \in DOMAIN bookings :
                    bookings[b].status = "pending"
                       => /\ (checkIn < bookings[b].checkOut /\ checkOut > bookings[b].checkIn)
                                => bookings[b].roomId \notin res'.data
                          /\ (/\ (checkIn = bookings[b].checkOut \/ checkOut = bookings[b].checkIn)
                              /\ checkAvailability(bookings, bookings[b].roomId, checkIn,
                                                   checkOut, NoId))
                                => /\ res'.code = 200
                                   /\ bookings[b].roomId \in res'.data]_vars

\* C16: a cancellation by the booking's user, an admin or a manager sets the
\* booking's status to cancelled and changes nothing else of it, no other
\* booking and no payment; one by anybody else, or of a booking that does not
\* exist, is refused and changes no booking and no payment.
C16_CancelTouchesStatusOnly ==
    [][res'.op = "cancel" =>
       \A id \in BookingIds, uid \in Users, role \in Roles :
          Cancel(id, uid, role)
             => /\ payments' = payments
                /\ IF id \notin DOMAIN bookings
                      THEN bookings' = bookings /\ res'.code = 404
                   ELSE IF role \in {"admin", "manager"} \/ uid = bookings[id].userId
                      THEN /\ res'.code = 200
                           /\ bookings' = [bookings EXCEPT ![id].status = "cancelled"]
                   ELSE bookings' = bookings /\ res'.code = 403]_vars

\* A cancellation was accepted and a cancelled booking keeps its room, its
\* dates, its price and its paymentStatus, with its payment record stored.
C16_Witness ==
    /\ res.op = "cancel" /\ res.code = 200
    /\ \E b \in DOMAIN bookings, p \in DOMAIN payments :
          /\ bookings[b].status = "cancelled"
          /\ bookings[b].paymentStatus = "unpaid"
          /\ bookings[b].roomId \in RoomIds
          /\ bookings[b].checkIn < bookings[b].checkOut
          /\ bookings[b].totalPrice > 0
          /\ payments[p].bookingId = b
          /\ payments[p].status = "pending"

\* C17: each booking's status is pending, confirmed or cancelled, its
\* paymentStatus unpaid, pending, paid or failed, and each payment's status
\* pending, success or failed.
C17_StatusesEnumerated ==
    /\ \A b \in DOMAIN bookings :
          /\ bookings[b].status \in {"pending", "confirmed", "cancelled"}
          /\ bookings[b].paymentStatus \in {"unpaid", "pending", "paid", "failed"}
    /\ \A p \in DOMAIN payments :
          payments[p].status \in {"pending", "success", "failed"}

\* C18: the insert of a creation request that passed the availability check
\* adds its booking, pending, for the room and dates requested, whatever the
\* store holds by then, unless the store fails; so two requests that are both
\* past the check both insert.
C18_InsertDoesNotRecheck ==
    [][\A s \in Slots :
          (/\ reqs[s].op = "postBooking" /\ reqs[s].pc = "checked"
           /\ reqs'[s] # reqs[s]
           /\ ~(reqs'[s] = Idle /\ res'.op = "postBooking" /\ res'.code = 500))
              => /\ reqs'[s].op = "postBooking" /\ reqs'[s].pc = "booked"
                 /\ reqs'[s].bookingId \notin DOMAIN bookings
                 /\ DOMAIN bookings' = DOMAIN bookings \cup {reqs'[s].bookingId}
                 /\ \A b \in DOMAIN bookings : bookings'[b] = bookings[b]
                 /\ LET new == bookings'[reqs'[s].bookingId]
                    IN  /\ new.roomId = reqs[s].body.roomId
                        /\ new.checkIn = reqs[s].body.start
                        /\ new.checkOut = reqs[s].body.end
                        /\ new.status = "pending"]_vars

\* Two creation requests are in flight, both past the check and both
\* inserted, and their bookings are pending, of one room, and overlap.
C18_Witness ==
    /\ \A s \in Slots : reqs[s].op = "postBooking" /\ reqs[s].pc = "booked"
    /\ \E s, t \in Slots :
          /\ s # t
          /\ reqs[s].bookingId # reqs[t].bookingId
          /\ bookings[reqs[s].bookingId].roomId = bookings[reqs[t].bookingId].roomId
          /\ bookings[reqs[s].bookingId].status = "pending"
          /\ bookings[reqs[t].bookingId].status = "pending"
          /\ Overlap(reqs[s].bookingId, reqs[t].bookingId)

\* C19: a creation request whose checkOut is not after its checkIn, or that
\* pays Cash without receivedBy, or whose interval overlaps a pending or
\* confirmed booking of its room at the check, is answered 4xx, and no booking
\* and no payment is created for it then or later.
C19_RejectedCreatesNothing ==
    [][(bookings' = bookings /\ (res'.op = "postBooking" \/ res' = res)) =>
       \A s \in Slots :
          (/\ FreeSlot(s)
           /\ \E body \in CreateBodies :
                 /\ \/ (body.start # NaD /\ body.end # NaD /\ body.start >= body.end)
                    \/ (body.paymentMethod = "Cash" /\ body.receivedBy = None)
                    \/ \E b \in DOMAIN bookings :
                          /\ bookings[b].roomId = body.roomId
                          /\ Active(b)
                          /\ body.start < bookings[b].checkOut
                          /\ body.end > bookings[b].checkIn
                 /\ CreateValidate(s, body))
              => /\ res'.op = "postBooking"
                 /\ res'.code \in 400..499
                 /\ bookings' = bookings
                 /\ payments' = payments
                 /\ reqs' = reqs]_vars

\* A cash booking without receivedBy was refused while bookings are stored.
C19_Witness ==
    /\ res.op = "postBooking" /\ res.code = 400
    /\ res.msg = "Cash payment requires receivedBy"
    /\ DOMAIN bookings # {}

\* C20: an admin edit that supplies some but not all of roomId, checkIn and
\* checkOut, and whose resulting room and interval (the stored values for the
\* fields not supplied) overlap another pending or confirmed booking, is
\* answered 409 and leaves the booking unchanged.
C20_PartialEditValidated ==
    [][res'.op = "putBooking" =>
       \A id \in DOMAIN bookings, body \in EditBodies :
          LET supplied == {f \in {"roomId", "checkIn", "checkOut"} :
                              IF f = "roomId" THEN body.roomId # NoId
                              ELSE IF f = "checkIn" THEN body.checkIn # NoTime
                              ELSE body.checkOut # NoTime}
              after == ApplyBookingUpdates(bookings[id], body)
          IN  (/\ PutBooking(id, body)
               /\ supplied # {}
               /\ supplied # {"roomId", "checkIn", "checkOut"}
               /\ \E o \in DOMAIN bookings \ {id} :
                     /\ bookings[o].roomId = after.roomId
                     /\ Active(o)
                     /\ after.checkIn < bookings[o].checkOut
                     /\ after.checkOut > bookings[o].checkIn)
                 => res'.code = 409 /\ bookings' = bookings]_vars

\* Bodies of PUT /bookings/:id of the edit specification: any of room and
\* dates, and the booking confirmed or its status left alone.
RebookBodies ==
    [roomId        : RoomIds \cup {NoId},
     checkIn       : (Times \ {MaxTime}) \cup {NoTime},
     checkOut      : (Times \ {0}) \cup {NoTime},
     status        : {None, "confirmed"},
     paymentStatus : {None}]

\* Admin edits: stays are booked one request at a time, edited, confirmed and
\* cancelled.
NextEdit ==
    \/ \E s \in PaySlots, body \in StayBodies : CreateValidate(s, body)
    \/ \E s \in PaySlots : CreateInsert(s, TRUE)
    \/ \E s \in PaySlots, pid \in LowestFree(PayIds, DOMAIN payments) :
          CreatePayment(s, TRUE, 0, pid)
    \/ \E s \in PaySlots : CreateGateway(s, TRUE)
    \/ \E id \in BookingIds, body \in RebookBodies : PutBooking(id, body)
    \/ \E id \in BookingIds : Cancel(id, "u1", "customer")

SpecEdit == Init /\ [][NextEdit]_vars

\* The bodies of PUT /bookings/:id that supply roomId, checkIn and checkOut.
FullEdits ==
    {body \in RebookBodies :
        body.roomId # NoId /\ body.checkIn # NoTime /\ body.checkOut # NoTime}

\* C21: an admin edit of a stored booking that supplies roomId, checkIn and
\* checkOut is answered 409 with the bookings unchanged exactly when the new
\* interval overlaps a pending or confirmed booking of the target room other
\* than the edited one; otherwise it is written, whatever the edited booking's
\* own interval is.
C21_FullEditConflictIff ==
    [][res'.op = "putBooking" =>
       \A id \in DOMAIN bookings, body \in FullEdits :
          PutBooking(id, body)
             => IF \E o \in DOMAIN bookings \ {id} :
                      /\ bookings[o].roomId = body.roomId
                      /\ Active(o)
                      /\ body.checkIn < bookings[o].checkOut
                      /\ body.checkOut > bookings[o].checkIn
                   THEN res'.code = 409 /\ bookings' = bookings
                   ELSE /\ res'.code = 200
                        /\ bookings' = [bookings EXCEPT
                                           ![id] = ApplyBookingUpdates(@, body)]]_vars

\* An edit was refused as unavailable while the room holds two pending
\* bookings that only touch.
C21_Witness ==
    /\ res.op = "putBooking" /\ res.code = 409
    /\ \E a, b \in DOMAIN bookings :
          /\ a # b
          /\ bookings[a].roomId = bookings[b].roomId
          /\ bookings[a].status = "confirmed" /\ bookings[b].status = "pending"
          /\ bookings[a].checkIn < bookings[a].checkOut
          /\ bookings[a].checkOut = bookings[b].checkIn
          /\ bookings[b].checkIn < bookings[b].checkOut

\* C22: while an explicit status update that set a payment to success is
\* under way, and after it, the payment's booking is paid and confirmed: the
\* two writes are one.
C22_StatusUpdateAtomic ==
    \A s \in Slots :
        (/\ reqs[s].op = "putPayment"
         /\ reqs[s].status = "success"
         /\ payments[reqs[s].id].status = "success"
         /\ reqs[s].bookingId \in DOMAIN bookings)
            => /\ bookings[reqs[s].bookingId].paymentStatus = "paid"
               /\ bookings[reqs[s].bookingId].status = "confirmed"

\* C23: a step that sets a payment of a stored booking to failed leaves the
\* booking's status as it was and its paymentStatus failed, the explicit
\* status update having until its second write to do so.
C23_FailedReachesBooking ==
    [][\A p \in DOMAIN payments :
          (/\ payments[p].status # "failed"
           /\ payments'[p].status = "failed"
           /\ payments[p].bookingId \in DOMAIN bookings)
              => /\ bookings'[payments[p].bookingId].status
                       = bookings[payments[p].bookingId].status
                 /\ \/ bookings'[payments[p].bookingId].paymentStatus = "failed"
                    \/ \E s \in Slots :
                          /\ reqs'[s].op = "putPayment"
                          /\ reqs'[s].id = p]_vars

\* C24: the step in which the gateway call of a booking creation or of a
\* retry-initiate is rejected or unreachable leaves the payment recorded for
\* the call with status failed and a failure reason.
C24_GatewayFailureMarksPayment ==
    [][\A s \in Slots :
          /\ (/\ reqs[s].op = "postBooking" /\ reqs[s].pc = "recorded"
              /\ reqs'[s] = Idle
              /\ res'.op = "postBooking" /\ res'.msg = "prompt failed")
                => \E p \in DOMAIN payments' :
                      /\ payments'[p].bookingId = reqs[s].bookingId
                      /\ payments'[p].customer_reference = reqs[s].ref
                      /\ payments'[p].status = "failed"
                      /\ payments'[p].failureReason # None
          /\ (/\ reqs[s].op = "initiate" /\ reqs[s].pc = "recorded"
              /\ reqs'[s] = Idle
              /\ res'.op = "initiate" /\ res'.code = 502)
                => /\ payments'[reqs[s].pid].status = "failed"
                   /\ payments'[reqs[s].pid].failureReason # None]_vars

\* Bodies of POST /bookings of the prompt specification: mobile-money
\* bookings of room 1 whose paymentStatus the client leaves out or supplies.
PromptBodies ==
    [roomId        : {1},
     start         : {0},
     end           : {1},
     status        : {None},
     paymentStatus : {None, "paid"},
     paymentMethod : {"Mobile Money"},
     receivedBy    : {None},
     paymentPhone  : {"p"},
     userId        : {"u1"}]

\* Payment prompts: bookings are created with a gateway call and paid again
\* through retry-initiate, while their bookings are cancelled.
NextPrompt ==
    \/ \E s \in PaySlots, body \in PromptBodies : CreateValidate(s, body)
    \/ \E s \in PaySlots, ok \in BOOLEAN : CreateInsert(s, ok)
    \/ \E s \in PaySlots, ok \in BOOLEAN, rnd \in 0..MaxRand, pid \in PayIds :
          CreatePayment(s, ok, rnd, pid)
    \/ \E s \in PaySlots, accepted \in BOOLEAN : CreateGateway(s, accepted)
    \/ \E s \in PaySlots, bookingId \in DOMAIN bookings \cup {GhostBooking, NoId},
          rnd \in 0..MaxRand, pid \in PayIds, ok \in BOOLEAN :
          InitiateRecord(s, bookingId, "p", "a", rnd, pid, ok)
    \/ \E s \in PaySlots, accepted \in BOOLEAN, ok \in BOOLEAN :
          InitiateGateway(s, accepted, ok)
    \/ \E id \in BookingIds : Cancel(id, "u1", "customer")

SpecPrompt == Init /\ [][NextPrompt]_vars

\* C25: when a booking creation or a retry-initiate reaches its gateway call
\* with reference R, a payment with customer_reference R and status pending is
\* stored; and when the call returns or throws, a payment with
\* customer_reference R is still stored.
C25_RecordedBeforeCall ==
    [][\A s \in Slots :
          /\ (/\ reqs'[s] # reqs[s]
              /\ reqs'[s].op \in {"postBooking", "initiate"}
              /\ reqs'[s].pc = "recorded"
              /\ reqs'[s].op = "postBooking"
                    => /\ reqs'[s].body.paymentMethod = "Mobile Money"
                       /\ reqs'[s].body.paymentPhone # None)
                => \E p \in DOMAIN payments' :
                      /\ payments'[p].customer_reference = reqs'[s].ref
                      /\ payments'[p].status = "pending"
          /\ (/\ reqs'[s] # reqs[s]
              /\ reqs[s].op \in {"postBooking", "initiate"}
              /\ reqs[s].pc = "recorded")
                => \E p \in DOMAIN payments' :
                      payments'[p].customer_reference = reqs[s].ref]_vars

\* C26: the step of retry-initiate that records its payment adds one payment,
\* whose reference no payment stored before carries, and changes no payment
\* stored before and no booking; the step of its gateway call, accepted or
\* rejected, adds no payment and changes no booking and no payment other
\* than the one the request recorded.
C26_RetryAddsOneFreshPayment ==
    [][\A s \in Slots :
          /\ (reqs[s] = Idle /\ reqs'[s].op = "initiate")
                => /\ reqs'[s].pid \notin DOMAIN payments
                   /\ DOMAIN payments' = DOMAIN payments \cup {reqs'[s].pid}
                   /\ \A p \in DOMAIN payments :
                         /\ payments'[p] = payments[p]
                         /\ payments[p].customer_reference
                               # payments'[reqs'[s].pid].customer_reference
                   /\ bookings' = bookings
          /\ (reqs[s].op = "initiate" /\ reqs'[s] = Idle)
                => /\ DOMAIN payments' = DOMAIN payments
                   /\ \A p \in DOMAIN payments \ {reqs[s].pid} :
                         payments'[p] = payments[p]
                   /\ bookings' = bookings]_vars

\* C27: whenever the batch of a room edit has truncated the room's bookings
\* in progress, the room's stored status is the one the edit sets: the batch
\* and the room update are one write.
C27_OverrideAtomicWithRoom ==
    \A s \in Slots :
        (reqs[s].op = "putRoom" /\ reqs[s].pc = "batched")
            => rooms[reqs[s].id].status = reqs[s].body.status

\* The room numbers requests give: the ones of the rooms of Init and one more.
RoomNumbers == 1..(NumRooms + 1)

\* Bodies of POST /rooms.
NewRoomBodies ==
    [roomNumber : RoomNumbers \cup {NoId},
     type       : {"Deluxe"},
     price      : {100},
     status     : {None}]

\* Bodies of PUT /rooms/:id that renumber the room.
RenumberBodies ==
    [roomNumber : RoomNumbers,
     price      : {0},
     status     : {None}]

\* Room administration: rooms are created and renumbered by concurrent
\* requests.
NextRoomAdmin ==
    \/ \E s \in Slots, body \in NewRoomBodies, ok \in BOOLEAN :
          PostRoomCheck(s, body, ok)
    \/ \E s \in Slots, ok \in BOOLEAN : PostRoomAdd(s, ok)
    \/ \E s \in Slots, id \in 1..MaxRooms, body \in RenumberBodies, ok \in BOOLEAN :
          PutRoomQuery(s, id, body, ok)
    \/ \E s \in Slots, ok \in BOOLEAN : PutRoomUpdate(s, ok)

SpecRoomAdmin == Init /\ [][NextRoomAdmin]_vars

\* C28: no two rooms have the same roomNumber.
C28_RoomNumberUnique ==
    \A a, b \in DOMAIN rooms :
        a # b => rooms[a].roomNumber # rooms[b].roomNumber

\* C29: a success webhook delivered after the request that recorded the
\* payment was answered, and processed with the store not failing, leaves
\* every pending payment that carries its reference with status success and
\* that payment's booking paid and confirmed.
C29_SuccessWebhookConverges ==
    [][(res'.op = "webhook" /\ \A s \in Slots : reqs[s] = Idle) =>
       \A status \in {"success", "SUCCESS"}, ref \in References \ {NoRef},
          txid \in TxIds :
          Webhook(status, ref, txid, "declined", TRUE)
             => \A p \in Matches(ref) :
                   payments[p].status = "pending"
                      => /\ payments'[p].status = "success"
                         /\ payments[p].bookingId \in DOMAIN bookings'
                         /\ bookings'[payments[p].bookingId].paymentStatus = "paid"
                         /\ bookings'[payments[p].bookingId].status = "confirmed"]_vars

\* Cancellation and payment: mobile-money bookings of room 1 are created one
\* request at a time and cancelled, and their payments settled by the webhook
\* and by the explicit status update.
NextCancel ==
    \/ \E s \in PaySlots, body \in PayingBodies : CreateValidate(s, body)
    \/ \E s \in PaySlots : CreateInsert(s, TRUE)
    \/ \E s \in PaySlots, pid \in LowestFree(PayIds, DOMAIN payments) :
          CreatePayment(s, TRUE, 0, pid)
    \/ \E s \in PaySlots, accepted \in BOOLEAN : CreateGateway(s, accepted)
    \/ \E id \in BookingIds : Cancel(id, "u1", "customer")
    \/ \E status \in WebhookStatuses, ref \in References, txid \in TxIds :
          Webhook(status, ref, txid, "declined", TRUE)
    \/ \E s \in PaySlots, id \in PayIds, status \in PutStatuses :
          PutPaymentWrite(s, id, status, TRUE)
    \/ \E s \in PaySlots, ok \in BOOLEAN : PutPaymentSync(s, ok)

SpecCancel == Init /\ [][NextCancel]_vars

\* C30: a webhook delivery or an explicit payment status update leaves every
\* cancelled booking cancelled.
C30_CancelledStaysCancelled ==
    [][(\/ res'.op = "webhook" /\ reqs' = reqs
        \/ \E s \in Slots : reqs[s].op = "putPayment")
          => \A b \in DOMAIN bookings :
                bookings[b].status = "cancelled"
                    => bookings'[b].status = "cancelled"]_vars

====
